---- MODULE Spec2Model ----
(***************************************************************************)
(* Model of rag_system/ingest_files_smart.py: the incremental ingestion    *)
(* engine (main, ingest_file), its tracking file (.ingested_files.json)    *)
(* and the MindsDB sink it talks to over HTTP; and of                      *)
(* rag_system/reset_and_reingest.py, which drops and recreates the sink's  *)
(* objects and deletes a tracking file.                                    *)
(*                                                                         *)
(* One engine process runs at a time.  The environment may edit or delete  *)
(* source files at any moment, the sink answers every request with one of  *)
(* the replies execute_sql distinguishes, and the process may be killed    *)
(* between any two steps.                                                  *)
(*                                                                         *)
(* Specifications:                                                         *)
(*   Spec        engine runs, each looked at on its own                    *)
(*   SpecRerun   the same, each run remembering how the one before ended   *)
(*   SpecOrder   undisturbed runs over three files (a.md, b.txt, c.json)   *)
(*   SpecShared  undisturbed runs beside a second process that inserts     *)
(*   SpecReset   engine runs and resets, one process at a time             *)
(***************************************************************************)
EXTENDS Integers, Sequences, FiniteSets, TLC

\* ---------------------------------------------------------------- bounds
MaxContent == 2   \* file contents are 1..MaxContent
MaxCount == 1     \* the sink holds at most MaxCount chunks
MaxChunks == 1    \* one accepted INSERT adds 0..MaxChunks chunks

\* ------------------------------------------------------------ file names
\* A path is a directory, a stem (1 = "a", 2 = "b", ...) and a suffix.
File(d, n, e) == [dir |-> d, name |-> n, ext |-> e]

\* The paths that can exist: b.txt under --prds-dir, c.json under
\* --designs-dir.
AllFiles == {File("prds", 2, "txt"), File("designs", 3, "json")}

\* a.md under --prds-dir exists only in the runs that look at the order of
\* processing.
Paths == AllFiles \cup {File("prds", 1, "md")}

Contents == 1..MaxContent

\* A file on disk: <<>> when it does not exist, <<c>> when it holds bytes c.
FileStates == {<<>>} \cup {<<c>> : c \in Contents}

\* hashlib.md5(bytes).hexdigest(): a digest, a value of another type than
\* the bytes, equal for equal bytes and different for the different
\* contents of the model.
file_hash(bytes) == [md5 |-> bytes]

VARIABLES
    fs,            \* path -> FileStates: the source directories
    disk,          \* the tracking file: [exists, text]
    kb,            \* number of chunks in prd_knowledge_base
    pc,            \* position of the engine process
    force,         \* args.force of the current (or last) run
    tracking,      \* the in-memory dict of main
    dirPhase,      \* which directory loop main is in
    queue,         \* remaining paths of the current for loop
    cur,           \* <<file_path>> inside ingest_file, else <<>>
    curHash,       \* <<current_hash>> inside ingest_file, else <<>>
    chunksBefore,  \* chunks_before of ingest_file
    stats,         \* the stats dict of main
    saveBuf,       \* chunks json.dump has still to write
    exit,          \* how the last run ended
    \* -- observation of the run (what was printed, what the sink saw)
    outcome,       \* path -> status printed for it in this run
    sinkRes,       \* path -> reply of the sink to its INSERT in this run
    discovered,    \* paths the globs of this run returned
    calls,         \* kinds of SQL request this run has sent
    probeRes,      \* what the status probe of this run found
    diskAtStart,   \* the tracking file when this run started
    touched,       \* a source file vanished while this run was going on
    prev,          \* how the run before this one ended (PrevSummary)
    \* -- the units accounting of the file ingest_file is working on
    added,         \* chunks its INSERT added to the sink
    beforeExact,   \* chunks_before is the count the sink held when it was read
    interfered,    \* another process inserted since chunks_before was read
    skewed,        \* units recorded in this run differ, after such an insert,
                   \* from what the file's own INSERT added
    \* -- reset_and_reingest.py
    rpc,           \* position of the reset process
    rfail,         \* steps of this reset whose execute_sql returned False
    afterReset     \* the engine run follows a reset that ran to its end

vars == <<fs, disk, kb, pc, force, tracking, dirPhase, queue, cur, curHash,
          chunksBefore, stats, saveBuf, exit, outcome, sinkRes, discovered,
          calls, probeRes, diskAtStart, touched, prev,
          added, beforeExact, interfered, skewed, rpc, rfail, afterReset>>

runVars == <<force, tracking, dirPhase, queue, cur, curHash, chunksBefore,
             stats, saveBuf>>
obsVars == <<outcome, sinkRes, discovered, calls, probeRes, diskAtStart, prev>>
resetVars == <<rpc, rfail, afterReset>>

\* No file is between its two counts: the accounting variables are at rest.
UnitsAtRest ==
    /\ added' = 0
    /\ beforeExact' = FALSE
    /\ interfered' = FALSE

\* The steps of reset_and_reingest.main, in order.
ResetSteps == <<"drop_agent", "drop_kb", "create_model", "create_kb",
                "create_agent", "delete_tracking">>
ResetRunning == rpc \in {ResetSteps[i] : i \in 1..Len(ResetSteps)}

\* ------------------------------------------------------ the tracking file
Tok(s) == [t |-> s]
Pair(f, h) == [t |-> "pair", k |-> f, v |-> h]

NoStore == [exists |-> FALSE, text |-> <<>>]

RECURSIVE SortedSeq(_)
\* sorted(paths): ascending by name
SortedSeq(S) ==
    IF S = {} THEN <<>>
    ELSE LET m == CHOOSE x \in S : \A y \in S : x.name <= y.name
         IN <<m>> \o SortedSeq(S \ {m})

\* json.dump(tracking, f, indent=2): the chunks written, in order.  Key
\* order is not significant in JSON; the keys are written in path order.
Serialize(m) ==
    IF DOMAIN m = {} THEN <<Tok("{}")>>
    ELSE LET keys == SortedSeq(DOMAIN m)
         IN <<Tok("{")>> \o [i \in 1..Len(keys) |-> Pair(keys[i], m[keys[i]])]
                \o <<Tok("}")>>

\* json.load succeeds exactly on a complete object.
Parseable(text) ==
    \/ text = <<Tok("{}")>>
    \/ /\ Len(text) >= 3
       /\ text[1].t = "{"
       /\ text[Len(text)].t = "}"
       /\ \A i \in 2..(Len(text) - 1) : text[i].t = "pair"

Parse(text) ==
    LET idx == {i \in 1..Len(text) : text[i].t = "pair"}
        keys == {text[i].k : i \in idx}
    IN [f \in keys |-> text[CHOOSE i \in idx : text[i].k = f /\
                           \A j \in idx : text[j].k = f => j <= i].v]

EmptyMap == [f \in {} |-> <<>>]

\* load_tracking with the parse error swallowed: a bad file reads as {}.
load_tracking_lenient(d) ==
    IF d.exists /\ Parseable(d.text) THEN [ok |-> TRUE, map |-> Parse(d.text)]
    ELSE [ok |-> TRUE, map |-> EmptyMap]

\* load_tracking(): the dict of the tracking file, {} when there is no file.
\* json.load raises on a file that is no complete JSON document; nothing in
\* main catches it (ok = FALSE).
load_tracking(d) ==
    IF ~d.exists THEN [ok |-> TRUE, map |-> EmptyMap]
    ELSE IF Parseable(d.text) THEN [ok |-> TRUE, map |-> Parse(d.text)]
    ELSE [ok |-> FALSE, map |-> EmptyMap]

\* ------------------------------------------------------------- the sink
\* What requests.post can come back with for one query:
\*   "table"     HTTP 200, {"type": "table" or "ok", ...}: the query ran
\*   "error"     HTTP 200, {"type": "error", "error_message": ...}
\*   "http"      another HTTP status
\*   "transport" an exception: connection refused, timeout after 30 s
Replies == {"table", "error", "http", "transport"}
SinkFailures == {"error", "http", "transport"}

\* execute_sql: the first component of its result
execute_sql_success(reply) == reply \in {"table", "error"}

\* get_chunk_count(): the count when the sink answered with a table, else 0
get_chunk_count(answered) == IF answered THEN kb ELSE 0

\* AlreadyIngested looking at the key alone.
AlreadyIngestedByKey(tr, f, h) == f \in DOMAIN tr

\* AlreadyIngested never finding a match.
AlreadyIngestedNever(tr, f, h) == FALSE

\* ingest_file, line 71: the test that skips a file
AlreadyIngested(tr, f, h) == f \in DOMAIN tr /\ tr[f] = h

\* SetEntry with the assignment lost.
SetEntryLost(tr, f, h) == tr

\* SetEntry building the dict anew from the one entry.
SetEntryAlone(tr, f, h) == [g \in {f} |-> h]

\* tracking[file_key] = current_hash
SetEntry(tr, f, h) ==
    [g \in DOMAIN tr \cup {f} |-> IF g = f THEN h ELSE tr[g]]

Glob(d, e) == {f \in Paths : f.dir = d /\ f.ext = e /\ fs[f] # <<>>}

Range(s) == {s[i] : i \in 1..Len(s)}

ZeroStats == [ingested |-> 0, skipped |-> 0, failed |-> 0, total_chunks |-> 0]
NoOutcome == [f \in Paths |-> "none"]

\* What a run remembers of the run before it, for the properties that span
\* two runs: how it ended and, when it was interrupted before save_tracking,
\* its mode and the files it had ingested.  Nothing is remembered of a run
\* during which files vanished.
NoPrev == [exit |-> "none", force |-> FALSE, ingested |-> {}]
InterruptedExits == {"killed", "traceback", "probe_failed"}
PrevSummary ==
    IF touched THEN NoPrev
    ELSE IF exit \in {"exit0", "exit1"}
         THEN [exit |-> exit, force |-> FALSE, ingested |-> {}]
    ELSE IF exit \in InterruptedExits /\ \E f \in AllFiles : outcome[f] = "ingested"
         THEN [exit |-> "interrupted", force |-> force,
               ingested |-> {f \in AllFiles : outcome[f] = "ingested"}]
    ELSE NoPrev

\* ----------------------------------------------------------------- Init
Init ==
    /\ fs = [f \in Paths |-> <<>>]
    /\ disk = NoStore
    /\ kb = 0
    /\ pc = "idle"
    /\ force = FALSE
    /\ tracking = EmptyMap
    /\ dirPhase = "prds"
    /\ queue = <<>>
    /\ cur = <<>>
    /\ curHash = <<>>
    /\ chunksBefore = 0
    /\ stats = ZeroStats
    /\ saveBuf = <<>>
    /\ exit = "none"
    /\ outcome = NoOutcome
    /\ sinkRes = NoOutcome
    /\ discovered = {}
    /\ calls = {}
    /\ probeRes = "none"
    /\ diskAtStart = NoStore
    /\ touched = FALSE
    /\ prev = NoPrev
    /\ added = 0
    /\ beforeExact = FALSE
    /\ interfered = FALSE
    /\ skewed = FALSE
    /\ rpc = "idle"
    /\ rfail = {}
    /\ afterReset = FALSE

\* The process is gone: its locals no longer exist.  tracking is kept as
\* the record of what the run held in memory when it ended.
Ended(how) ==
    /\ pc' = "idle"
    /\ exit' = how
    /\ queue' = <<>>
    /\ cur' = <<>>
    /\ curHash' = <<>>
    /\ chunksBefore' = 0
    /\ saveBuf' = <<>>

\* ---------------------------------------------------------- environment
\* Between two runs somebody writes, replaces or deletes a source file.
\* The run that ended before is then no longer the run before the next one:
\* its record is dropped.
EditFile(f, s) ==
    /\ pc = "idle"
    /\ ~ResetRunning
    /\ fs[f] # s
    /\ fs' = [fs EXCEPT ![f] = s]
    /\ exit' = "none"
    /\ force' = FALSE
    /\ tracking' = EmptyMap
    /\ dirPhase' = "prds"
    /\ stats' = ZeroStats
    /\ outcome' = NoOutcome
    /\ sinkRes' = NoOutcome
    /\ discovered' = {}
    /\ calls' = {}
    /\ probeRes' = "none"
    /\ diskAtStart' = disk
    /\ touched' = FALSE
    /\ prev' = NoPrev
    /\ afterReset' = FALSE
    /\ UNCHANGED <<disk, kb, pc, queue, cur, curHash, chunksBefore, saveBuf>>
    /\ skewed' = FALSE
    /\ UNCHANGED <<added, beforeExact, interfered, rpc, rfail>>

\* A file the run has found and not yet read is deleted under it.
Vanish(f) ==
    /\ pc # "idle"
    /\ f \in Range(queue) \cup Range(cur)
    /\ fs[f] # <<>>
    /\ fs' = [fs EXCEPT ![f] = <<>>]
    /\ touched' = TRUE
    /\ UNCHANGED <<disk, kb, pc, exit, runVars, obsVars>>
    /\ UNCHANGED <<added, beforeExact, interfered, skewed, resetVars>>

\* The process is killed (SIGKILL, power loss) between two steps.  No
\* summary was printed; what is left of the run is the tracking file, the
\* lines printed per file and, for a kill inside save_tracking, the dict that
\* was being written.
Kill ==
    /\ pc # "idle"
    /\ Ended(CASE pc = "save_write" -> "killed_in_save"
               [] pc = "summary" -> "killed_after_save"
               [] OTHER -> "killed")
    /\ tracking' = IF pc = "save_write" THEN tracking ELSE EmptyMap
    /\ stats' = ZeroStats
    /\ dirPhase' = "prds"
    /\ sinkRes' = NoOutcome
    /\ discovered' = {}
    /\ calls' = {}
    /\ probeRes' = "none"
    /\ UNCHANGED <<fs, disk, kb, force, touched, outcome, diskAtStart, prev>>
    /\ UnitsAtRest
    /\ skewed' = FALSE
    /\ UNCHANGED resetVars

\* ------------------------------------------------------------------ main
\* main, lines 113-120: parse the arguments, load the tracking file.
\* remember: whether the summary of the run before is kept in prev.
StartRun(frc, remember) ==
    /\ pc = "idle"
    /\ ~ResetRunning
    /\ LET r == IF frc THEN [ok |-> TRUE, map |-> EmptyMap] ELSE load_tracking(disk)
       IN /\ tracking' = r.map
          /\ pc' = IF r.ok THEN "probe" ELSE "idle"
          /\ exit' = IF r.ok THEN "running" ELSE "traceback"
    /\ force' = frc
    /\ dirPhase' = "prds"
    /\ queue' = <<>>
    /\ cur' = <<>>
    /\ curHash' = <<>>
    /\ chunksBefore' = 0
    /\ stats' = ZeroStats
    /\ saveBuf' = <<>>
    /\ outcome' = NoOutcome
    /\ sinkRes' = NoOutcome
    /\ discovered' = {}
    /\ calls' = {}
    /\ probeRes' = "none"
    /\ diskAtStart' = disk
    /\ touched' = FALSE
    /\ prev' = IF remember THEN PrevSummary ELSE NoPrev
    /\ UNCHANGED <<fs, disk, kb>>
    /\ afterReset' = (rpc = "complete")
    /\ rpc' = "idle"
    /\ rfail' = {}
    /\ skewed' = FALSE
    /\ UNCHANGED <<added, beforeExact, interfered>>

\* Probe with the sys.exit(1) calls missing: the run goes on either way.
ProbeIgnoresFailure(up) ==
    /\ pc = "probe"
    /\ probeRes' = IF up THEN "up" ELSE "down"
    /\ pc' = "scan_prd"
    /\ stats' = ZeroStats
    /\ UNCHANGED <<exit, queue, cur, curHash, chunksBefore, saveBuf>>
    /\ UNCHANGED <<fs, disk, kb, force, tracking, dirPhase, touched,
                   outcome, sinkRes, discovered, calls, diskAtStart, prev>>
    /\ UNCHANGED <<added, beforeExact, interfered, skewed, resetVars>>

\* main, lines 125-136: GET /api/status; sys.exit(1) unless it answers 200.
Probe(up) ==
    /\ pc = "probe"
    /\ probeRes' = IF up THEN "up" ELSE "down"
    /\ IF up
       THEN /\ pc' = "scan_prd"
            /\ stats' = ZeroStats
            /\ UNCHANGED <<exit, queue, cur, curHash, chunksBefore, saveBuf>>
       ELSE /\ Ended("probe_failed")
            /\ UNCHANGED stats
    /\ UNCHANGED <<fs, disk, kb, force, tracking, dirPhase, touched,
                   outcome, sinkRes, discovered, calls, diskAtStart, prev>>
    /\ UNCHANGED <<added, beforeExact, interfered, skewed, resetVars>>

\* main, line 142: sorted(glob("*.txt")) + sorted(glob("*.md"))
ScanPrd ==
    /\ pc = "scan_prd"
    /\ LET found == SortedSeq(Glob("prds", "txt")) \o SortedSeq(Glob("prds", "md"))
       IN /\ queue' = found
          /\ discovered' = discovered \cup Range(found)
    /\ dirPhase' = "prds"
    /\ pc' = "loop"
    /\ UNCHANGED <<fs, disk, kb, force, tracking, cur, curHash, chunksBefore,
                   stats, saveBuf, exit, touched,
                   outcome, sinkRes, calls, probeRes, diskAtStart, prev>>
    /\ UNCHANGED <<added, beforeExact, interfered, skewed, resetVars>>

\* main, line 160: sorted(glob("*.json")), once the PRD loop is over
ScanDesign ==
    /\ pc = "loop" /\ queue = <<>> /\ dirPhase = "prds"
    /\ LET found == SortedSeq(Glob("designs", "json"))
       IN /\ queue' = found
          /\ discovered' = discovered \cup Range(found)
    /\ dirPhase' = "designs"
    /\ UNCHANGED <<fs, disk, kb, pc, force, tracking, cur, curHash, chunksBefore,
                   stats, saveBuf, exit, touched,
                   outcome, sinkRes, calls, probeRes, diskAtStart, prev>>
    /\ UNCHANGED <<added, beforeExact, interfered, skewed, resetVars>>

\* ----------------------------------------------------------- ingest_file
Bump(st, field) == [st EXCEPT ![field] = @ + 1]

\* ingest_file, lines 67-72, and the skipped branch of the loop body.
\* file_hash opens the file outside every try block: when the file is gone,
\* FileNotFoundError leaves ingest_file and main, and the interpreter exits
\* with a traceback.
HashFile ==
    /\ pc = "loop" /\ queue # <<>>
    /\ LET f == Head(queue)
       IN IF fs[f] = <<>>
          THEN /\ Ended("traceback")
               /\ UNCHANGED <<stats, outcome>>
          ELSE LET h == file_hash(fs[f][1])
               IN IF AlreadyIngested(tracking, f, h)
                  THEN /\ outcome' = [outcome EXCEPT ![f] = "skipped"]
                       /\ stats' = Bump(stats, "skipped")
                       /\ queue' = Tail(queue)
                       /\ UNCHANGED <<pc, exit, cur, curHash, chunksBefore, saveBuf>>
                  ELSE /\ cur' = <<f>>
                       /\ curHash' = <<h>>
                       /\ queue' = Tail(queue)
                       /\ pc' = "count_before"
                       /\ UNCHANGED <<exit, chunksBefore, saveBuf, stats, outcome>>
    /\ UNCHANGED <<fs, disk, kb, force, tracking, dirPhase, touched,
                   sinkRes, discovered, calls, probeRes, diskAtStart, prev>>
    /\ UNCHANGED <<added, beforeExact, interfered, skewed, resetVars>>

\* ingest_file, line 75: chunks_before = get_chunk_count()
CountBefore(answered) ==
    /\ pc = "count_before"
    /\ chunksBefore' = get_chunk_count(answered)
    /\ calls' = calls \cup {"count"}
    /\ pc' = "submit"
    /\ UNCHANGED <<fs, disk, kb, force, tracking, dirPhase, queue, cur, curHash,
                   stats, saveBuf, exit, touched,
                   outcome, sinkRes, discovered, probeRes, diskAtStart, prev>>
    /\ beforeExact' = (chunksBefore' = kb)
    /\ UNCHANGED <<added, interfered, skewed, resetVars>>

\* The loop body of main for a status of 'failed'.
RecordFailed(f) ==
    /\ outcome' = [outcome EXCEPT ![f] = "failed"]
    /\ stats' = Bump(stats, "failed")
    /\ pc' = "loop"
    /\ cur' = <<>>
    /\ curHash' = <<>>
    /\ chunksBefore' = 0
    /\ UnitsAtRest

\* ingest_file, lines 78-103: read the text, send the INSERT.
\* readable = FALSE: open or read raised (file gone, permissions, bytes that
\* are not UTF-8); the except clause turns it into 'failed'.
\* n is the number of chunks the sink makes of an accepted document.
ReadSubmit(readable, reply, n) ==
    /\ pc = "submit"
    /\ readable => fs[cur[1]] # <<>>
    /\ LET f == cur[1]
       IN IF ~readable
          THEN /\ RecordFailed(f)
               /\ UNCHANGED <<kb, calls, sinkRes>>
          ELSE /\ calls' = calls \cup {"submit"}
               /\ sinkRes' = [sinkRes EXCEPT ![f] = reply]
               /\ IF reply = "table"
                  THEN kb + n <= MaxCount /\ kb' = kb + n
                  ELSE kb' = kb
               /\ IF execute_sql_success(reply)
                  THEN /\ pc' = "count_after"
                       /\ added' = (IF reply = "table" THEN n ELSE 0)
                       /\ UNCHANGED <<cur, curHash, chunksBefore, stats, outcome,
                                      beforeExact, interfered>>
                  ELSE RecordFailed(f)
    /\ UNCHANGED <<fs, disk, force, tracking, dirPhase, queue, saveBuf, exit,
                   touched, discovered, probeRes, diskAtStart, prev>>
    /\ UNCHANGED <<skewed, resetVars>>

\* CountAfter with save_tracking called after every ingested file.
CountAfterWriteThrough(answered) ==
    /\ pc = "count_after"
    /\ LET f == cur[1]
           chunks_created == get_chunk_count(answered) - chunksBefore
       IN /\ tracking' = SetEntry(tracking, f, curHash[1])
          /\ outcome' = [outcome EXCEPT ![f] = "ingested"]
          /\ stats' = [stats EXCEPT !.ingested = @ + 1,
                                    !.total_chunks = @ + chunks_created]
          /\ skewed' = (skewed \/ (interfered /\ chunks_created # added))
    /\ disk' = [exists |-> TRUE, text |-> Serialize(tracking')]
    /\ calls' = calls \cup {"count"}
    /\ pc' = "loop"
    /\ cur' = <<>>
    /\ curHash' = <<>>
    /\ chunksBefore' = 0
    /\ UNCHANGED <<fs, kb, force, dirPhase, queue, saveBuf, exit, touched,
                   sinkRes, discovered, probeRes, diskAtStart, prev>>
    /\ UnitsAtRest
    /\ UNCHANGED resetVars

\* CountAfter taking chunks_after itself for the units created.
CountAfterNoBaseline(answered) ==
    /\ pc = "count_after"
    /\ LET f == cur[1]
           chunks_created == get_chunk_count(answered)
       IN /\ tracking' = SetEntry(tracking, f, curHash[1])
          /\ outcome' = [outcome EXCEPT ![f] = "ingested"]
          /\ stats' = [stats EXCEPT !.ingested = @ + 1,
                                    !.total_chunks = @ + chunks_created]
          /\ skewed' = (skewed \/ (interfered /\ chunks_created # added))
    /\ calls' = calls \cup {"count"}
    /\ pc' = "loop"
    /\ cur' = <<>>
    /\ curHash' = <<>>
    /\ chunksBefore' = 0
    /\ UNCHANGED <<fs, disk, kb, force, dirPhase, queue, saveBuf, exit, touched,
                   sinkRes, discovered, probeRes, diskAtStart, prev>>
    /\ UnitsAtRest
    /\ UNCHANGED resetVars

\* ingest_file, lines 91-98, and the ingested branch of the loop body.
CountAfter(answered) ==
    /\ pc = "count_after"
    /\ LET f == cur[1]
           chunks_created == get_chunk_count(answered) - chunksBefore
       IN /\ tracking' = SetEntry(tracking, f, curHash[1])
          /\ outcome' = [outcome EXCEPT ![f] = "ingested"]
          /\ stats' = [stats EXCEPT !.ingested = @ + 1,
                                    !.total_chunks = @ + chunks_created]
          /\ skewed' = (skewed \/ (interfered /\ chunks_created # added))
    /\ calls' = calls \cup {"count"}
    /\ pc' = "loop"
    /\ cur' = <<>>
    /\ curHash' = <<>>
    /\ chunksBefore' = 0
    /\ UNCHANGED <<fs, disk, kb, force, dirPhase, queue, saveBuf, exit, touched,
                   sinkRes, discovered, probeRes, diskAtStart, prev>>
    /\ UnitsAtRest
    /\ UNCHANGED resetVars

\* --------------------------------------------------------- save_tracking
\* open(TRACKING_FILE, 'w'): the file exists and is empty from here on.
SaveOpen ==
    /\ pc = "loop" /\ queue = <<>> /\ dirPhase = "designs"
    /\ disk' = [exists |-> TRUE, text |-> <<>>]
    /\ saveBuf' = Serialize(tracking)
    /\ pc' = "save_write"
    /\ UNCHANGED <<fs, kb, force, tracking, dirPhase, queue, cur, curHash,
                   chunksBefore, stats, exit, touched, obsVars>>
    /\ UNCHANGED <<added, beforeExact, interfered, skewed, resetVars>>

\* json.dump writes its chunks to the buffered file object; the first k of
\* the pending chunks reach the file: all of them at once, or the opening
\* chunk ahead of the rest.
SaveWrite(k) ==
    /\ pc = "save_write" /\ saveBuf # <<>>
    /\ k \in {1, Len(saveBuf)}
    /\ disk' = [disk EXCEPT !.text = @ \o SubSeq(saveBuf, 1, k)]
    /\ saveBuf' = SubSeq(saveBuf, k + 1, Len(saveBuf))
    /\ UNCHANGED <<fs, kb, pc, force, tracking, dirPhase, queue, cur, curHash,
                   chunksBefore, stats, exit, touched, obsVars>>
    /\ UNCHANGED <<added, beforeExact, interfered, skewed, resetVars>>

\* The with block closes the file.
SaveClose ==
    /\ pc = "save_write" /\ saveBuf = <<>>
    /\ pc' = "summary"
    /\ UNCHANGED <<fs, disk, kb, force, tracking, dirPhase, queue, cur, curHash,
                   chunksBefore, stats, saveBuf, exit, touched, obsVars>>
    /\ UNCHANGED <<added, beforeExact, interfered, skewed, resetVars>>

\* Summary with the exit status fixed at 0.
SummaryExitZero(answered) ==
    /\ pc = "summary"
    /\ calls' = calls \cup {"count"}
    /\ Ended("exit0")
    /\ UNCHANGED <<fs, disk, kb, force, tracking, dirPhase, stats, touched,
                   outcome, sinkRes, discovered, probeRes, diskAtStart, prev>>
    /\ UNCHANGED <<added, beforeExact, interfered, skewed, resetVars>>

\* main, lines 177-199: the final count, the summary, sys.exit.
Summary(answered) ==
    /\ pc = "summary"
    /\ calls' = calls \cup {"count"}
    /\ Ended(IF stats.failed = 0 THEN "exit0" ELSE "exit1")
    /\ UNCHANGED <<fs, disk, kb, force, tracking, dirPhase, stats, touched,
                   outcome, sinkRes, discovered, probeRes, diskAtStart, prev>>
    /\ UNCHANGED <<added, beforeExact, interfered, skewed, resetVars>>

\* ------------------------------------------------------------------ Next
\* The steps of a running engine process.
Work ==
    \/ \E up \in BOOLEAN : Probe(up)
    \/ ScanPrd
    \/ ScanDesign
    \/ HashFile
    \/ \E a \in BOOLEAN : CountBefore(a)
    \/ \E r \in BOOLEAN, reply \in Replies, n \in 0..MaxChunks : ReadSubmit(r, reply, n)
    \/ \E a \in BOOLEAN : CountAfter(a)
    \/ SaveOpen
    \/ \E k \in 1..(Cardinality(AllFiles) + 2) : SaveWrite(k)
    \/ SaveClose
    \/ \E a \in BOOLEAN : Summary(a)

\* Every step but the start of a run.
Step ==
    \/ \E f \in AllFiles, s \in FileStates : EditFile(f, s)
    \/ \E f \in AllFiles : Vanish(f)
    \/ Kill
    \/ Work

\* Runs one after another, each looked at on its own.
Next ==
    \/ \E frc \in BOOLEAN : StartRun(frc, FALSE)
    \/ Step

Spec == Init /\ [][Next]_vars

\* The same runs, each remembering how the run before it ended.
NextRerun ==
    \/ \E frc \in BOOLEAN : StartRun(frc, TRUE)
    \/ Step

SpecRerun == Init /\ [][NextRerun]_vars

\* ------------------------------------------------- three files, one order
\* Undisturbed runs over a.md and b.txt in --prds-dir and c.json in
\* --designs-dir; between two runs any of the three files is created or
\* deleted.
NextOrder ==
    \/ \E frc \in BOOLEAN : StartRun(frc, FALSE)
    \/ Work
    \/ \E f \in Paths, s \in {<<>>, <<1>>} : EditFile(f, s)

SpecOrder == Init /\ [][NextOrder]_vars

\* ------------------------------------------------ two runs, one sink
\* A second engine process works against the same sink: the INSERT of one
\* of its ingest_file calls is accepted and adds n chunks.
OtherRunInsert(n) ==
    /\ kb + n <= MaxCount
    /\ kb' = kb + n
    /\ interfered' = (interfered \/ pc \in {"submit", "count_after"})
    /\ UNCHANGED <<fs, disk, pc, exit, runVars, obsVars, touched,
                   added, beforeExact, skewed, resetVars>>

\* Undisturbed runs of this process, with the inserts of the other one.
NextShared ==
    \/ \E frc \in BOOLEAN : StartRun(frc, FALSE)
    \/ Work
    \/ \E f \in AllFiles, s \in FileStates : EditFile(f, s)
    \/ \E n \in 1..MaxChunks : OtherRunInsert(n)

SpecShared == Init /\ [][NextShared]_vars

\* --------------------------------------------------- reset_and_reingest
\* What requests.post can come back with in reset_and_reingest.execute_sql:
\*   "table"     HTTP 200, a body that is no error
\*   "notfound"  HTTP 200, type "error", message with 'does not exist'
\*   "error"     HTTP 200, type "error", another message
\*   "http"      another HTTP status: raise_for_status raises
\*   "transport" requests.post raises
ResetReplies == {"table", "notfound", "error", "http", "transport"}

\* reset_and_reingest.execute_sql: its result
reset_execute_sql(reply) == reply \in {"table", "notfound"}

\* The step after rpc in main.
NextResetStep ==
    LET i == CHOOSE j \in 1..Len(ResetSteps) : ResetSteps[j] = rpc
    IN ResetSteps[i + 1]

\* The steps whose result main tests: "if execute_sql(...)" ... "else: return".
CheckedSteps == {"create_kb", "create_agent"}

\* python3 reset_and_reingest.py, run while no engine process is running.
\* Without OPENAI_API_KEY the module exits before main.  The record of the
\* engine run that ended before is dropped.
ResetStart(hasKey) ==
    /\ pc = "idle"
    /\ ~ResetRunning
    /\ rpc' = IF hasKey THEN "drop_agent" ELSE "no_key"
    /\ rfail' = {}
    /\ afterReset' = FALSE
    /\ exit' = "none"
    /\ force' = FALSE
    /\ tracking' = EmptyMap
    /\ dirPhase' = "prds"
    /\ stats' = ZeroStats
    /\ outcome' = NoOutcome
    /\ sinkRes' = NoOutcome
    /\ discovered' = {}
    /\ calls' = {}
    /\ probeRes' = "none"
    /\ diskAtStart' = disk
    /\ touched' = FALSE
    /\ prev' = NoPrev
    /\ skewed' = FALSE
    /\ UNCHANGED <<fs, disk, kb, pc, queue, cur, curHash, chunksBefore, saveBuf,
                   added, beforeExact, interfered>>

\* main, lines 56-138: one of steps 1 to 5.  Steps 1 to 3 call execute_sql
\* and go on whatever it returns; steps 4 and 5 return from main when it
\* returns False.  An executed DROP KNOWLEDGE_BASE empties the sink.
ResetSql(reply) ==
    /\ ResetRunning /\ rpc # "delete_tracking"
    /\ LET ok == reset_execute_sql(reply)
       IN /\ rfail' = IF ok THEN rfail ELSE rfail \cup {rpc}
          /\ rpc' = IF ~ok /\ rpc \in CheckedSteps THEN "aborted" ELSE NextResetStep
    /\ kb' = IF rpc = "drop_kb" /\ reply = "table" THEN 0 ELSE kb
    /\ UNCHANGED <<fs, disk, pc, exit, runVars, obsVars, touched,
                   added, beforeExact, interfered, skewed, afterReset>>

\* main, lines 140-151: step 6 unlinks .ingested_files.json in the directory
\* of the script, Path(__file__).parent.  The engine opens
\* '.ingested_files.json' in its working directory: sameFile says whether
\* the two paths are the same file.
ResetDelete(sameFile) ==
    /\ rpc = "delete_tracking"
    /\ disk' = IF sameFile THEN NoStore ELSE disk
    /\ rpc' = "complete"
    /\ UNCHANGED <<fs, kb, pc, exit, runVars, obsVars, touched,
                   added, beforeExact, interfered, skewed, rfail, afterReset>>

\* Engine runs and resets, one process at a time.
NextReset ==
    \/ \E frc \in BOOLEAN : StartRun(frc, FALSE)
    \/ Step
    \/ \E k \in BOOLEAN : ResetStart(k)
    \/ \E reply \in ResetReplies : ResetSql(reply)
    \/ \E same \in BOOLEAN : ResetDelete(same)

SpecReset == Init /\ [][NextReset]_vars

\* ============================================================ properties
\* Vocabulary of the properties.
HasEntry(m, f, h) == f \in DOMAIN m /\ m[f] = h
Corrupt(d) == d.exists /\ ~Parseable(d.text)
Readable(d) == d.exists /\ Parseable(d.text)
\* The mapping a readable tracking file holds.
Stored(d) == Parse(d.text)
Fingerprint(f) == file_hash(fs[f][1])
\* The run reached sys.exit at the end of main.
RunCompleted == pc = "idle" /\ exit \in {"exit0", "exit1"}
\* The record of the run is whole: it is going on, or it ended by itself.
RunOnRecord == pc # "idle" \/ exit \in {"exit0", "exit1", "traceback", "probe_failed"}

\* C1: every entry file -> fingerprint of the persisted Tracking Store was
\* persisted before the run started or belongs to a file whose INSERT the
\* sink accepted in this run; a rejected or failed attempt creates none.
\* (The store is empty before the first run, so by induction over the runs
\* every entry goes back to an accepted submit.)
C1_EntriesOnlyFromAcceptedSubmits ==
    (RunOnRecord /\ Readable(disk)) =>
        \A f \in DOMAIN Stored(disk) :
            \/ Readable(diskAtStart) /\ HasEntry(Stored(diskAtStart), f, Stored(disk)[f])
            \/ sinkRes[f] = "table"

\* C2: a candidate whose submit ended in a transport error, a timeout, a
\* non-success HTTP status or a response of type "error" gets Outcome failed.
C2_SinkFailureIsFailedOutcome ==
    \A f \in AllFiles :
        (sinkRes[f] \in SinkFailures /\ outcome[f] # "none") => outcome[f] = "failed"

\* C5: after a completed run in which the submission failed for A and
\* succeeded for B, the store holds B's current fingerprint for B and does
\* not hold A's current fingerprint for A.
C5_FailureIsolation ==
    (RunCompleted /\ ~touched) =>
        \A a, b \in AllFiles :
            (sinkRes[a] \in SinkFailures /\ sinkRes[b] = "table") =>
                /\ Readable(disk)
                /\ HasEntry(Stored(disk), b, Fingerprint(b))
                /\ ~HasEntry(Stored(disk), a, Fingerprint(a))

\* Every file that exists has an entry with its current fingerprint in d.
AllMatching(d) ==
    /\ Readable(d)
    /\ \A f \in AllFiles : fs[f] # <<>> => HasEntry(Stored(d), f, Fingerprint(f))

\* C6: a completed force-mode run that started from a store with a matching
\* entry for every candidate skipped no candidate, and the store it saved
\* holds every candidate's current fingerprint.
C6_ForceRefreshesEveryEntry ==
    (RunCompleted /\ force /\ ~touched /\ AllMatching(diskAtStart)) =>
        /\ \A f \in discovered : outcome[f] # "skipped"
        /\ Readable(disk)
        /\ \A f \in discovered : HasEntry(Stored(disk), f, Fingerprint(f))

\* C7: when a run has ended by itself, every candidate it discovered has
\* an Outcome; a file that disappeared after discovery has Outcome failed.
C7_EveryCandidateHasOutcome ==
    (pc = "idle" /\ exit \in {"exit0", "exit1", "traceback"}) =>
        \A f \in discovered :
            /\ outcome[f] # "none"
            /\ fs[f] = <<>> => outcome[f] = "failed"

\* C8: once the reachability probe has failed, the run is over with a
\* non-zero exit, it has sent no submit and no count request, and the
\* tracking file is what it was when the run started, in force mode too.
C8_ProbeFailureAborts ==
    probeRes = "down" =>
        /\ pc = "idle"
        /\ exit = "probe_failed"
        /\ calls = {}
        /\ disk = diskAtStart

\* C8 happens: the probe failed in a force-mode run over an existing store.
C8_Witness == probeRes = "down" /\ force /\ diskAtStart.exists

\* C9 (as amended): a non-force run that finds a tracking file it cannot
\* parse ends on load with a traceback: it does not go on, sends nothing to
\* the sink and leaves the file as it is.
C9_CorruptStoreIsFatal ==
    (~force /\ exit # "none" /\ Corrupt(diskAtStart)) =>
        /\ pc = "idle"
        /\ exit = "traceback"
        /\ calls = {}
        /\ disk = diskAtStart

\* C9 happens: a non-force run started over an unparseable file.
C9_Witness == ~force /\ exit = "traceback" /\ Corrupt(diskAtStart)

\* C9 as claimed, for every run: force mode included.
C9_CorruptStoreIsFatalInEveryMode ==
    (exit # "none" /\ Corrupt(diskAtStart)) =>
        /\ pc = "idle"
        /\ exit = "traceback"
        /\ calls = {}
        /\ disk = diskAtStart

\* C10: after a kill inside save_tracking the tracking file holds the
\* complete old mapping or the complete new mapping.
C10_SaveIsAtomic ==
    exit = "killed_in_save" =>
        \/ disk = diskAtStart
        \/ Readable(disk) /\ Stored(disk) = tracking

\* ------------------------------------------------ properties of two runs
\* (checked under SpecRerun, where prev holds the summary of the run before)

\* C3 (as amended): a completed non-force run that follows, with no file
\* changed, a completed run without failed Outcome has no ingested and no
\* failed Outcome, and leaves the tracking file as it found it.
C3_SecondRunIsIdle ==
    (RunCompleted /\ ~force /\ ~touched /\ prev.exit = "exit0") =>
        /\ stats.ingested = 0
        /\ stats.failed = 0
        /\ \A f \in AllFiles : outcome[f] \in {"none", "skipped"}
        /\ disk = diskAtStart

\* C3 happens: the second run had something to skip.
C3_Witness ==
    /\ RunCompleted /\ ~force /\ ~touched /\ prev.exit = "exit0"
    /\ stats.skipped = Cardinality(AllFiles)

\* C3 as claimed: after any completed run, with or without failed Outcomes.
C3_SecondRunIsIdleAfterAnyRun ==
    (RunCompleted /\ ~force /\ ~touched /\ prev.exit \in {"exit0", "exit1"}) =>
        /\ stats.ingested = 0
        /\ stats.failed = 0
        /\ disk = diskAtStart

\* C4 (as amended): a run that is interrupted before save_tracking leaves
\* the tracking file exactly as it was when the run started; and when that
\* run was a non-force run and no file changed, the next run skips none of
\* the files it had ingested: each is submitted again, and is ingested
\* unless the read or the INSERT fails this time.
C4_InterruptedRunIsRedone ==
    /\ (pc = "idle" /\ exit \in InterruptedExits) => disk = diskAtStart
    /\ (prev.exit = "interrupted" /\ ~prev.force /\ ~touched) =>
           \A f \in prev.ingested :
               /\ outcome[f] # "skipped"
               /\ outcome[f] = "failed" => sinkRes[f] # "table"

\* C4 happens: a file ingested by the interrupted run is ingested again.
C4_Witness ==
    /\ prev.exit = "interrupted" /\ ~prev.force /\ ~touched
    /\ \E f \in prev.ingested : outcome[f] = "ingested"
    /\ diskAtStart.exists

\* C4 as claimed: after an interrupted run of either mode, no file it had
\* submitted with success is skipped by the next run.
C4_InterruptedRunIsRedoneInEveryMode ==
    (prev.exit = "interrupted" /\ ~touched) =>
        \A f \in prev.ingested : outcome[f] # "skipped"

\* --------------------------------------------------- units and exit status
\* C11: the units-created value recorded for an ingested file, the amount
\* its branch of the loop adds to stats['total_chunks'], is never negative.
C11_UnitsCreatedNonNegative ==
    [][(pc = "count_after" /\ outcome'[cur[1]] = "ingested") =>
           stats'.total_chunks - stats.total_chunks >= 0]_vars

OutcomesOf(kind) == {f \in Paths : outcome[f] = kind}

\* C14: a run that reached the end of main exits with status 0 exactly when
\* no candidate has Outcome failed, whatever the number of ingested files;
\* its counters are the numbers of Outcomes of each kind, and a run that
\* found no candidate ends with all counters zero and status 0.
C14_ExitStatusReflectsFailures ==
    RunCompleted =>
        /\ exit = "exit0" <=> OutcomesOf("failed") = {}
        /\ stats.failed = Cardinality(OutcomesOf("failed"))
        /\ stats.ingested = Cardinality(OutcomesOf("ingested"))
        /\ stats.skipped = Cardinality(OutcomesOf("skipped"))
        /\ discovered = {} => (stats = ZeroStats /\ exit = "exit0")

\* C14 happens: a run with a failed and an ingested candidate exited with 1.
C14_Witness ==
    /\ RunCompleted /\ exit = "exit1"
    /\ OutcomesOf("failed") # {} /\ OutcomesOf("ingested") # {}

\* ------------------------------------------------- entries and fingerprints
\* The entry d holds for f: <<h>>, or <<>> when d holds none.
EntryOf(d, f) ==
    IF Readable(d) /\ f \in DOMAIN Stored(d) THEN <<Stored(d)[f]>> ELSE <<>>

\* C15: in a completed non-force run, a candidate whose entry in the loaded
\* store differs from its fingerprint is not skipped: it fails only when its
\* read or its INSERT fails, and when the sink accepts the INSERT its Outcome
\* is ingested and the saved entry is the new fingerprint.  The store keeps
\* one fingerprint per file, so this covers a file reverted to content that
\* was ingested before.
C15_ChangedFileIsResubmitted ==
    (RunCompleted /\ ~force) =>
        \A f \in discovered :
            (fs[f] # <<>> /\ EntryOf(diskAtStart, f) \notin {<<>>, <<Fingerprint(f)>>}) =>
                /\ outcome[f] \in {"ingested", "failed"}
                /\ outcome[f] = "failed" => sinkRes[f] \in {"none", "http", "transport"}
                /\ sinkRes[f] = "table" =>
                       /\ outcome[f] = "ingested"
                       /\ EntryOf(disk, f) = <<Fingerprint(f)>>

\* C15 happens: a changed file was ingested and its entry replaced.
C15_Witness ==
    /\ RunCompleted /\ ~force
    /\ \E f \in discovered :
           /\ fs[f] # <<>>
           /\ EntryOf(diskAtStart, f) \notin {<<>>, <<Fingerprint(f)>>}
           /\ sinkRes[f] = "table"
           /\ EntryOf(disk, f) = <<Fingerprint(f)>>

\* C16: after a completed run, force mode or not, the persisted entry of a
\* candidate with Outcome failed is the one persisted before the run.
C16_FailedKeepsPersistedEntry ==
    (RunCompleted /\ ~Corrupt(diskAtStart)) =>
        \A f \in OutcomesOf("failed") : EntryOf(disk, f) = EntryOf(diskAtStart, f)

\* C18: the step that handles a candidate whose in-memory entry equals its
\* fingerprint records Outcome skipped, sends nothing to the sink, leaves
\* the sink and the in-memory store as they are and adds no units.
C18_SkipTouchesNothing ==
    [][(/\ pc = "loop" /\ queue # <<>>
        /\ fs[Head(queue)] # <<>>
        /\ HasEntry(tracking, Head(queue), Fingerprint(Head(queue)))
        /\ queue' = Tail(queue) /\ pc' # "idle") =>
           /\ outcome'[Head(queue)] = "skipped"
           /\ stats' = [stats EXCEPT !.skipped = @ + 1]
           /\ calls' = calls
           /\ kb' = kb
           /\ tracking' = tracking
           /\ pc' = "loop"]_vars

\* C18 happens: a run has skipped a candidate and sent no request at all.
C18_Witness ==
    /\ pc = "loop" /\ calls = {}
    /\ OutcomesOf("skipped") # {}
    /\ stats.total_chunks = 0

\* The mapping load_tracking returned to the run.
LoadedMap == IF diskAtStart.exists THEN Stored(diskAtStart) ELSE EmptyMap

\* C20: a completed non-force run saves back every entry it loaded, those of
\* files that are no longer candidates included, and the saved mapping
\* differs from the loaded one only at candidates with Outcome ingested.
C20_NonForceRunKeepsOtherEntries ==
    (RunCompleted /\ ~force) =>
        /\ Readable(disk)
        /\ DOMAIN LoadedMap \subseteq DOMAIN Stored(disk)
        /\ \A f \in DOMAIN Stored(disk) :
               outcome[f] # "ingested" =>
                   (f \in DOMAIN LoadedMap /\ Stored(disk)[f] = LoadedMap[f])

\* C20 happens: the entry of a deleted file was saved back by a run that
\* ingested another file.
C20_Witness ==
    /\ RunCompleted /\ ~force
    /\ OutcomesOf("ingested") # {}
    /\ \E f \in DOMAIN Stored(disk) : fs[f] = <<>> /\ f \in DOMAIN LoadedMap

\* ------------------------------------------------------------ the reset
\* (checked under SpecReset)

\* C12: a reply that says the object does not exist counts as success, and
\* once any step of a reset has failed in another way the reset is over:
\* no later step runs and the tracking file is not deleted.
C12_AnyFailureAborts ==
    /\ reset_execute_sql("notfound")
    /\ rfail # {} => rpc = "aborted"

\* C13: the engine run that follows a reset that ran to its end finds no
\* tracking file, and skips no candidate when it is a non-force run.
C13_ResetClearsEngineStore ==
    afterReset =>
        /\ ~diskAtStart.exists
        /\ ~force => OutcomesOf("skipped") = {}

\* ------------------------------------------------------ processing order
\* (checked under SpecOrder)

\* f comes before g in the order of the claim: the documents directory
\* before the designs directory, and by file name within a directory.
ClaimedBefore(f, g) ==
    \/ f.dir = "prds" /\ g.dir = "designs"
    \/ f.dir = g.dir /\ f.name < g.name

\* The files of this run that ingest_file has been called for.
Started == {f \in Paths : outcome[f] # "none"} \cup Range(cur)

\* C17: whenever a candidate is still waiting in the loop, every candidate
\* already handed to ingest_file comes before it in the claimed order.
C17_ProcessedInNameOrder ==
    \A g \in Range(queue) : \A f \in Started : ClaimedBefore(f, g)

\* -------------------------------------------------- interleaved runs
\* (checked under SpecShared)

\* The units-created value the step records for the file it finishes.
RecordedUnits == stats'.total_chunks - stats.total_chunks

====
